---- MODULE Spec2Model ----
(***************************************************************************)
(* Model of envelope.py: _main (load document, validate, resolve the size, *)
(* open envelope.pdf, call the renderer) and write_envelope_pdf (the       *)
(* sequence of cairo calls and the coordinates it computes).               *)
(*                                                                         *)
(* Strings that the program inspects character by character (the size     *)
(* token) are sequences of one-character strings.  Python floats are       *)
(* modelled as exact rationals <<n, d>> in lowest terms with d > 0, so     *)
(* binary rounding is not part of the model.                               *)
(***************************************************************************)
EXTENDS Integers, Sequences, FiniteSets, TLC

\* ------------------------------------------------------------------ bounds

\* Longest address block (number of lines) among the generated documents.
MaxLines == 4
\* Longest generated size token (characters).
MaxTokLen == 3

\* --------------------------------------------------------------- rationals

Abs(n) == IF n < 0 THEN -n ELSE n

RECURSIVE GCD(_, _)
GCD(a, b) == IF b = 0 THEN a ELSE GCD(b, a % b)

RNorm(n, d) == LET g == GCD(Abs(n), d) IN <<n \div g, d \div g>>
RInt(k) == <<k, 1>>
RAdd(a, b) == RNorm(a[1] * b[2] + b[1] * a[2], a[2] * b[2])
RSub(a, b) == RNorm(a[1] * b[2] - b[1] * a[2], a[2] * b[2])
RMul(a, b) == RNorm(a[1] * b[1], a[2] * b[2])
RHalf(a) == RNorm(a[1], a[2] * 2)
RPos(a) == a[1] > 0
Zero == RInt(0)

\* ------------------------------------------------------------- constants

ENVELOPE_SIZES ==
    (<<"#","5">> :> <<"5",".","5","x","3",".","1","2","5">>) @@
    (<<"#","6",".","2","5">> :> <<"6","x","3",".","5">>) @@
    (<<"#","6",".","7","5">> :> <<"6",".","5","x","3",".","6","2","5">>) @@
    (<<"#","7">> :> <<"6",".","7","5","x","3",".","7","5">>) @@
    (<<"#","7",".","7","5">> :> <<"7",".","5","x","3",".","9","3","7","5","0">>) @@
    (<<"#","8",".","6","2","5">> :> <<"8",".","6","2","5","x","3",".","6","2","5">>) @@
    (<<"#","9">> :> <<"8",".","8","7","5","x","3",".","8","7","5">>) @@
    (<<"#","1","0">> :> <<"9",".","5","x","4",".","1","2","5">>) @@
    (<<"#","1","1">> :> <<"1","0",".","3","7","5","x","4",".","5">>) @@
    (<<"#","1","2">> :> <<"1","1","x","4",".","7","5">>) @@
    (<<"#","1","4">> :> <<"1","1",".","5","x","5">>)

FONT_SIZE == 14
INCHES_TO_POINTS == 72
MARGIN == RNorm(25, 100)
\* maxsplit of size_str.split(sep="x", maxsplit=2)
MaxSplit == 2

\* ---------------------------------------------------- str.split and float

RECURSIVE Split(_, _)
\* s.split(sep="x", maxsplit=n): cut at the leftmost "x", at most n times.
Split(s, n) ==
    LET xs == {i \in 1..Len(s) : s[i] = "x"} IN
    IF n = 0 \/ xs = {} THEN <<s>>
    ELSE LET i == CHOOSE j \in xs : \A k \in xs : j <= k
         IN <<SubSeq(s, 1, i - 1)>> \o Split(SubSeq(s, i + 1, Len(s)), n - 1)

Digits == <<"0","1","2","3","4","5","6","7","8","9">>
DigitSet == {Digits[i] : i \in 1..10}
DigitVal(c) == (CHOOSE i \in 1..10 : Digits[i] = c) - 1

RECURSIVE DecVal(_)
DecVal(ds) == IF ds = <<>> THEN 0
              ELSE 10 * DecVal(SubSeq(ds, 1, Len(ds) - 1)) + DigitVal(ds[Len(ds)])

RECURSIVE Pow10(_)
Pow10(n) == IF n = 0 THEN 1 ELSE 10 * Pow10(n - 1)

\* float(s) on the decimal subset of Python's grammar: an optional sign,
\* digits with at most one point, at least one digit.  Anything else is a
\* ValueError (ok = FALSE).
LenientFloat(s) ==
    LET ds == SelectSeq(s, LAMBDA c : c \in DigitSet)
    IN [ok |-> TRUE, val |-> RInt(DecVal(ds))]

TruncFloat(s) ==
    LET signed == s # <<>> /\ Head(s) \in {"-", "+"}
        body   == IF signed THEN Tail(s) ELSE s
        dots   == {i \in 1..Len(body) : body[i] = "."}
        good   == /\ Cardinality(dots) <= 1
                  /\ \A i \in 1..Len(body) : body[i] \in DigitSet \cup {"."}
                  /\ \E i \in 1..Len(body) : body[i] \in DigitSet
        whole  == IF dots = {} THEN body
                  ELSE SubSeq(body, 1, (CHOOSE i \in dots : TRUE) - 1)
        mag    == DecVal(whole)
    IN IF good
       THEN [ok |-> TRUE,
             val |-> RInt(IF signed /\ Head(s) = "-" THEN -mag ELSE mag)]
       ELSE [ok |-> FALSE, val |-> Zero]

ParseFloat(s) ==
    LET signed == s # <<>> /\ Head(s) \in {"-", "+"}
        body   == IF signed THEN Tail(s) ELSE s
        dots   == {i \in 1..Len(body) : body[i] = "."}
        good   == /\ Cardinality(dots) <= 1
                  /\ \A i \in 1..Len(body) : body[i] \in DigitSet \cup {"."}
                  /\ \E i \in 1..Len(body) : body[i] \in DigitSet
        ds     == SelectSeq(body, LAMBDA c : c # ".")
        ndec   == IF dots = {} THEN 0 ELSE Len(body) - (CHOOSE i \in dots : TRUE)
        mag    == DecVal(ds)
    IN IF good
       THEN [ok |-> TRUE,
             val |-> RNorm(IF signed /\ Head(s) = "-" THEN -mag ELSE mag, Pow10(ndec))]
       ELSE [ok |-> FALSE, val |-> Zero]

\* ENVELOPE_SIZES.get(size_str, size_str)
Lookup(tok) == IF tok \in DOMAIN ENVELOPE_SIZES THEN ENVELOPE_SIZES[tok] ELSE tok

\* ------------------------------------------------------- input documents

\* A TOML value: its Python type and, for str and list, its items (the
\* characters of a str, the lines of a list).
Missing == [type |-> "missing", val |-> <<>>]
Str(cs) == [type |-> "str", val |-> cs]
List(ls) == [type |-> "list", val |-> ls]
IntVal == [type |-> "int", val |-> <<"7">>]

FromPool == <<"E. L. Brown", "1640 Riverside Drive", "Hill Valley, CA 91103",
              "Suite 4", "Box 12", "USA">>
ToPool == <<"Burton Richter", "c/o SLAC National Laboratory", "2575 Sand Hill Rd",
            "Menlo Park, CA 94025", "Building 40", "United States">>

Doc(s, f, t) == [size |-> s, from |-> f, to |-> t]

\* The document embedded in _main.
DefaultDoc == Doc(Str(<<"#","1","0">>), List(SubSeq(FromPool, 1, 3)),
                  List(SubSeq(ToPool, 1, 4)))

Alphabet == {"0", "1", "x", ".", "-", "a"}
GenTokens == UNION {[1..n -> Alphabet] : n \in 0..MaxTokLen}
HandTokens == {<<"#","9","9">>, <<"1","x","2","x","3">>, <<"a","x","b">>,
               <<"4","x","6">>, <<"9",".","5","x","4",".","1","2","5">>,
               <<"-","1","x","2">>, <<"0","x","5">>, <<"4",".","x",".","5">>,
               <<"1","x","2","x","3","x","4">>, <<"6",".","2","5","x","-","3">>,
               <<"1","0","x",".","5">>, <<"+","3","x","0","2",".">>}
SizeTokens == DOMAIN ENVELOPE_SIZES \cup HandTokens \cup GenTokens

AddrVals(pool) ==
    {Missing, IntVal, Str(<<"A", "B">>), Str(<<>>)}
        \cup {List(SubSeq(pool, 1, n)) : n \in 0..MaxLines}
CoreSizes == {Missing, IntVal, Str(<<"#","1","0">>), Str(<<"4","x","6">>),
              Str(<<"a","x","b">>)}

Docs ==
    {Doc(s, f, t) : s \in CoreSizes, f \in AddrVals(FromPool), t \in AddrVals(ToPool)}
        \cup {Doc(Str(tok), List(SubSeq(FromPool, 1, 1)), List(SubSeq(ToPool, 1, 2)))
                : tok \in SizeTokens}

\* in_data.get(key, default)
Get(v, default) == IF v.type = "missing" THEN default ELSE v

\* The five conditions of all((...)) in _main.
ValidNoEmptyCheck(size, from_addr, to_addr) ==
    /\ size.type = "str"
    /\ from_addr.type \in {"str", "list"}
    /\ to_addr.type \in {"str", "list"}

Valid(size, from_addr, to_addr) ==
    /\ size.type = "str"                       \* isinstance(size, str)
    /\ from_addr.type \in {"str", "list"}      \* isinstance(from_addr, abc.Sequence)
    /\ to_addr.type \in {"str", "list"}        \* isinstance(to_addr, abc.Sequence)
    /\ from_addr.val # <<>>                    \* from_addr
    /\ to_addr.val # <<>>                      \* to_addr

\* ------------------------------------------------------------------ state

VARIABLES
    argv,       \* sys.argv[1]: "none", "-" or "path"
    input,      \* the document the named file holds
    pc,         \* position in _main / write_envelope_pdf
    err,        \* the exception propagating ("none" when none)
    in_file,    \* file name opened for reading
    in_data,    \* the loaded document
    size, from_addr, to_addr,   \* locals of _main after the .get calls
    width_s, height_s,          \* the two parts of the split size string
    fh,         \* handle of envelope.pdf: "none", "open", "closed"
    disk,       \* envelope.pdf on disk: "untouched", "truncated", "complete"
    calls,      \* number of invocations of write_envelope_pdf
    width, height, font_size, r_from, r_to,  \* arguments of write_envelope_pdf
    pt_width, pt_height, pt_margin, x, y, idx,  \* its locals
    surface,    \* cairo surface: "none", "active", "finished"
    log         \* the drawing calls made on the surface, in order

mainVars == <<argv, input, in_file, in_data, size, from_addr, to_addr,
              width_s, height_s, fh>>
argVars == <<width, height, font_size, r_from, r_to, calls>>
localVars == <<pt_width, pt_height, pt_margin, x, y, idx>>
vars == <<mainVars, argVars, localVars, pc, err, disk, surface, log>>

NoRender ==
    /\ width = Zero /\ height = Zero /\ font_size = FONT_SIZE
    /\ r_from = <<>> /\ r_to = <<>> /\ calls = 0
    /\ pt_width = Zero /\ pt_height = Zero /\ pt_margin = Zero
    /\ x = Zero /\ y = Zero /\ idx = 0
    /\ surface = "none" /\ log = <<>>

Init ==
    /\ argv \in {"none", "-", "path"}
    /\ input \in Docs
    /\ argv = "none" => input = DefaultDoc
    /\ pc = "start" /\ err = "none"
    /\ in_file = "" /\ in_data = DefaultDoc
    /\ size = Missing /\ from_addr = Missing /\ to_addr = Missing
    /\ width_s = <<>> /\ height_s = <<>>
    /\ fh = "none" /\ disk = "untouched"
    /\ NoRender

\* ------------------------------------------------------------------ _main

\* Lines 94-112: the built-in document, replaced by the file's when a path
\* is given; open/parse of the input may raise.
LoadConfig ==
    /\ pc = "start"
    /\ UNCHANGED <<argv, input, size, from_addr, to_addr, width_s, height_s, fh>>
    /\ UNCHANGED <<argVars, localVars, disk, surface, log>>
    /\ \/ /\ argv = "none"
          /\ in_data' = DefaultDoc /\ in_file' = ""
          /\ pc' = "loaded" /\ err' = err
       \/ /\ argv # "none"
          /\ in_file' = IF argv = "-" THEN "/dev/stdin" ELSE argv
          /\ in_data' = input
          /\ pc' = "loaded" /\ err' = err
       \/ /\ argv # "none"
          /\ in_file' = IF argv = "-" THEN "/dev/stdin" ELSE argv
          /\ in_data' = in_data
          /\ pc' = "failed" /\ err' = "OSError"

\* Lines 115-127.
Validate ==
    /\ pc = "loaded"
    /\ size' = Get(in_data.size, Str(<<"#","1","0">>))
    /\ from_addr' = Get(in_data.from, List(<<>>))
    /\ to_addr' = Get(in_data.to, List(<<>>))
    /\ IF Valid(size', from_addr', to_addr')
       THEN pc' = "validated" /\ err' = err
       ELSE pc' = "failed" /\ err' = "TypeError"
    /\ UNCHANGED <<argv, input, in_file, in_data, width_s, height_s, fh>>
    /\ UNCHANGED <<argVars, localVars, disk, surface, log>>

\* Lines 130-132: look up, split, unpack into exactly two parts.
ResolveSize ==
    /\ pc = "validated"
    /\ LET parts == Split(Lookup(size.val), MaxSplit) IN
       IF Len(parts) = 2
       THEN /\ width_s' = parts[1] /\ height_s' = parts[2]
            /\ pc' = "resolved" /\ err' = err
       ELSE /\ UNCHANGED <<width_s, height_s>>
            /\ pc' = "failed" /\ err' = "ValueError"
    /\ UNCHANGED <<argv, input, in_file, in_data, size, from_addr, to_addr, fh>>
    /\ UNCHANGED <<argVars, localVars, disk, surface, log>>

\* Line 134: open("envelope.pdf", "wb") creates or truncates the file, or
\* raises.
OpenOutput ==
    /\ pc = "resolved"
    /\ \/ fh' = "open" /\ disk' = "truncated" /\ pc' = "opened" /\ err' = err
       \/ fh' = fh /\ disk' = disk /\ pc' = "failed" /\ err' = "OSError"
    /\ UNCHANGED <<argv, input, in_file, in_data, size, from_addr, to_addr,
                   width_s, height_s>>
    /\ UNCHANGED <<argVars, localVars, surface, log>>

\* Lines 135-141: the arguments are evaluated inside the with block, then
\* the renderer is entered.
CallRenderer ==
    /\ pc = "opened"
    /\ LET w == ParseFloat(width_s)
           h == ParseFloat(height_s) IN
       IF w.ok /\ h.ok
       THEN /\ width' = w.val /\ height' = h.val
            /\ r_from' = from_addr.val /\ r_to' = to_addr.val
            /\ font_size' = FONT_SIZE
            /\ calls' = calls + 1
            /\ pc' = "r_enter" /\ err' = err
       ELSE /\ UNCHANGED argVars
            /\ pc' = "unwind" /\ err' = "ValueError"
    /\ UNCHANGED <<mainVars, localVars, disk, surface, log>>

\* Exit of the with block, by return or by exception: the handle is closed.
LeakOnError ==
    /\ pc \in {"r_returned", "unwind"}
    /\ fh' = IF err = "none" THEN "closed" ELSE fh
    /\ pc' = IF err = "none" THEN "done" ELSE "failed"
    /\ UNCHANGED <<argv, input, in_file, in_data, size, from_addr, to_addr,
                   width_s, height_s>>
    /\ UNCHANGED <<argVars, localVars, err, disk, surface, log>>

WithExit ==
    /\ pc \in {"r_returned", "unwind"}
    /\ fh' = "closed"
    /\ pc' = IF err = "none" THEN "done" ELSE "failed"
    /\ UNCHANGED <<argv, input, in_file, in_data, size, from_addr, to_addr,
                   width_s, height_s>>
    /\ UNCHANGED <<argVars, localVars, err, disk, surface, log>>

\* ----------------------------------------------------- write_envelope_pdf

\* Line 74: y = (pt_margin * 1.5) + font_size
FromStartYNoFont(m, fs) == RMul(m, RNorm(15, 10))
FromStartY(m, fs) == RAdd(RMul(m, RNorm(15, 10)), RInt(fs))

\* Line 81: x = pt_width * 0.38
ToStartX(w) == RMul(w, RNorm(38, 100))

\* Line 82: y = (pt_height / 2) - (font_size * (len(to_addr) - 1) / 2)
ToStartYFullCount(h, fs, n) == RSub(RHalf(h), RHalf(RInt(fs * n)))
ToStartY(h, fs, n) == RSub(RHalf(h), RHalf(RInt(fs * (n - 1))))

Text(px, py, line) == [op |-> "show_text", x |-> px, y |-> py, text |-> line]
Call(name) == [op |-> name, x |-> Zero, y |-> Zero, text |-> ""]

\* Lines 63-74: unit conversion, surface and context creation, start of the
\* return-address block.
RenderSetup ==
    /\ pc = "r_enter"
    /\ pt_width' = RMul(width, RInt(INCHES_TO_POINTS))
    /\ pt_height' = RMul(height, RInt(INCHES_TO_POINTS))
    /\ pt_margin' = RMul(MARGIN, RInt(INCHES_TO_POINTS))
    /\ surface' = "active"
    /\ x' = pt_margin'
    /\ y' = FromStartY(pt_margin', font_size)
    /\ idx' = 1
    /\ pc' = "r_from"
    /\ UNCHANGED <<mainVars, argVars, err, disk, log>>

\* Lines 75-78: one iteration of the from_addr loop.
DrawFromLine ==
    /\ pc = "r_from" /\ idx <= Len(r_from)
    /\ log' = Append(log, Text(x, y, r_from[idx]))
    /\ y' = RAdd(y, RInt(font_size))
    /\ idx' = idx + 1
    /\ UNCHANGED <<mainVars, argVars, pt_width, pt_height, pt_margin, x,
                   pc, err, disk, surface>>

\* Lines 81-82: the from_addr loop is exhausted; start of the to_addr block.
PositionTo ==
    /\ pc = "r_from" /\ idx > Len(r_from)
    /\ x' = ToStartX(pt_width)
    /\ y' = ToStartY(pt_height, font_size, Len(r_to))
    /\ idx' = 1
    /\ pc' = "r_to"
    /\ UNCHANGED <<mainVars, argVars, pt_width, pt_height, pt_margin,
                   err, disk, surface, log>>

\* Lines 83-86: one iteration of the to_addr loop.
DrawToLine ==
    /\ pc = "r_to" /\ idx <= Len(r_to)
    /\ log' = Append(log, Text(x, y, r_to[idx]))
    /\ y' = RAdd(y, RInt(font_size))
    /\ idx' = idx + 1
    /\ UNCHANGED <<mainVars, argVars, pt_width, pt_height, pt_margin, x,
                   pc, err, disk, surface>>

\* Line 88: ctx.show_page()
ShowPage ==
    /\ pc = "r_to" /\ idx > Len(r_to)
    /\ log' = Append(log, Call("show_page"))
    /\ pc' = "r_flush"
    /\ UNCHANGED <<mainVars, argVars, localVars, err, disk, surface>>

\* Line 89: surface.flush()
Flush ==
    /\ pc = "r_flush"
    /\ log' = Append(log, Call("flush"))
    /\ pc' = "r_finish"
    /\ UNCHANGED <<mainVars, argVars, localVars, err, disk, surface>>

\* Line 90: surface.finish(), then return.
FinishSkipped ==
    /\ pc = "r_finish"
    /\ pc' = "r_returned"
    /\ UNCHANGED <<mainVars, argVars, localVars, err, disk, surface, log>>

Finish ==
    /\ pc = "r_finish"
    /\ log' = Append(log, Call("finish"))
    /\ surface' = "finished"
    /\ disk' = "complete"
    /\ pc' = "r_returned"
    /\ UNCHANGED <<mainVars, argVars, localVars, err>>

RenderPcs == {"r_enter", "r_from", "r_to", "r_flush", "r_finish"}

\* Any cairo call may raise; the exception leaves write_envelope_pdf at once.
CairoError ==
    /\ pc \in RenderPcs
    /\ err' = "cairo.Error"
    /\ pc' = "unwind"
    /\ UNCHANGED <<mainVars, argVars, localVars, disk, surface, log>>

write_envelope_pdf ==
    \/ RenderSetup \/ DrawFromLine \/ PositionTo \/ DrawToLine
    \/ ShowPage \/ Flush \/ Finish \/ CairoError

\* --------------------------------------------------------- specifications

Main == LoadConfig \/ Validate \/ ResolveSize \/ OpenOutput \/ CallRenderer \/ WithExit

Next == Main \/ write_envelope_pdf

\* The program: one run of _main.
Spec == Init /\ [][Next]_vars

\* write_envelope_pdf called directly, on an open sink, with arguments drawn
\* from bounded sets.
FontSizes == {11, FONT_SIZE}
RenderDims == {<<RNorm(95, 10), RNorm(4125, 1000)>>, <<RInt(4), RInt(6)>>,
               <<RNorm(55, 10), RNorm(3125, 1000)>>}

RenderInit ==
    /\ argv = "none" /\ input = DefaultDoc
    /\ in_file = "" /\ in_data = DefaultDoc
    /\ size = Missing /\ from_addr = Missing /\ to_addr = Missing
    /\ width_s = <<>> /\ height_s = <<>>
    /\ fh = "open" /\ disk = "truncated"
    /\ pc = "r_enter" /\ err = "none"
    /\ \E d \in RenderDims : width = d[1] /\ height = d[2]
    /\ font_size \in FontSizes
    /\ r_from \in {SubSeq(FromPool, 1, n) : n \in 0..MaxLines}
    /\ r_to \in {SubSeq(ToPool, 1, n) : n \in 0..MaxLines}
    /\ calls = 1
    /\ pt_width = Zero /\ pt_height = Zero /\ pt_margin = Zero
    /\ x = Zero /\ y = Zero /\ idx = 0
    /\ surface = "none" /\ log = <<>>

RenderNext == write_envelope_pdf

RenderSpec == RenderInit /\ [][RenderNext]_vars

\* ------------------------------------------------------------ properties

Keys == DOMAIN ENVELOPE_SIZES
Tok10 == <<"#","1","0">>

\* Validate has run: the three locals hold the document's values or defaults.
Validated == size # Missing

\* Reference reading of "a numeric substring": sign, digits, optional point.
AllDigits(s) == \A i \in 1..Len(s) : s[i] \in DigitSet
IsNumeral(s) ==
    LET u == IF s # <<>> /\ s[1] \in {"-", "+"} THEN SubSeq(s, 2, Len(s)) ELSE s
    IN \E k \in 0..Len(u) :
          /\ AllDigits(SubSeq(u, 1, k))
          /\ \/ k = Len(u) /\ k > 0
             \/ /\ k < Len(u) /\ u[k + 1] = "."
                /\ AllDigits(SubSeq(u, k + 2, Len(u)))
                /\ Len(u) > 1
SepAt(tok) == {i \in 1..Len(tok) : tok[i] = "x"}
WellFormedWxH(tok) ==
    /\ Cardinality(SepAt(tok)) = 1
    /\ LET i == CHOOSE j \in SepAt(tok) : TRUE
       IN IsNumeral(SubSeq(tok, 1, i - 1)) /\ IsNumeral(SubSeq(tok, i + 1, Len(tok)))
BadSizeToken(tok) == tok \notin Keys /\ ~WellFormedWxH(tok)

EmptyBlock(v) == v.type \in {"list", "str"} /\ v.val = <<>>

\* C1: a document whose from or to block is empty fails validation with no
\* rendering attempted: the renderer is never entered and envelope.pdf is
\* never opened, created or truncated.
C1_EmptyBlockRejected ==
    (Validated /\ (EmptyBlock(in_data.from) \/ EmptyBlock(in_data.to)))
        => /\ pc = "failed" /\ err = "TypeError"
           /\ calls = 0 /\ surface = "none"
           /\ fh = "none" /\ disk = "untouched"

C1_Witness ==
    /\ pc = "failed" /\ err = "TypeError"
    /\ in_data.size = Str(Tok10)
    /\ in_data.from = List(<<>>)
    /\ in_data.to.type = "list" /\ Len(in_data.to.val) = 1

Malformed(doc) ==
    \/ doc.size.type # "str"
    \/ doc.from.type # "list"
    \/ doc.to.type # "list"

\* C2: a document in which size, from or to is missing or wrong-typed (size
\* not a string, from/to not a list) ends in a validation error and never
\* reaches the renderer.
C2_MalformedRejected ==
    (Validated /\ Malformed(in_data))
        => pc = "failed" /\ err = "TypeError" /\ calls = 0

\* C3: a size token that is no table key and is not exactly two numerals
\* around one "x" ends in an error, and the renderer is never entered.
C3_BadSizeNeverRenders ==
    (Validated /\ size.type = "str" /\ BadSizeToken(size.val))
        => /\ calls = 0 /\ surface = "none" /\ log = <<>>
           /\ pc \in {"validated", "resolved", "opened", "unwind", "failed"}
           /\ pc \in {"unwind", "failed"} => err \in {"TypeError", "ValueError", "OSError"}
           /\ pc = "unwind" => err = "ValueError"

C3_Witness ==
    /\ size = Str(<<"a","x","b">>)
    /\ pc = "failed" /\ err = "ValueError" /\ calls = 0

\* C4: whenever write_envelope_pdf has been entered, the width and height it
\* received are strictly positive.
C4_PositiveDimensions == calls > 0 => RPos(width) /\ RPos(height)

\* Dimensions obtained by parsing a key's table string.
KeyDims(k) ==
    LET parts == Split(ENVELOPE_SIZES[k], MaxSplit)
    IN <<ParseFloat(parts[1]).val, ParseFloat(parts[2]).val>>

\* Literal "WxH" tokens with the two positive numbers they denote.
LiteralVectors ==
    {[tok |-> <<"4","x","6">>, w |-> <<4, 1>>, h |-> <<6, 1>>],
     [tok |-> <<"9",".","5","x","4",".","1","2","5">>, w |-> <<19, 2>>, h |-> <<33, 8>>],
     [tok |-> <<"1","0","x",".","5">>, w |-> <<10, 1>>, h |-> <<1, 2>>],
     [tok |-> <<"+","3","x","0","2",".">>, w |-> <<3, 1>>, h |-> <<2, 1>>],
     [tok |-> <<"1","x","1">>, w |-> <<1, 1>>, h |-> <<1, 1>>]}

\* C5: a table key resolves to the dimensions parsed from its table string
\* ("#10" to 9.5 x 4.125), a literal "WxH" token of two positive numbers
\* resolves to exactly those numbers, and neither fails size resolution.
C5_SizeResolution ==
    Validated /\ size.type = "str" =>
        /\ (size.val \in Keys /\ calls > 0) => <<width, height>> = KeyDims(size.val)
        /\ (size.val = Tok10 /\ calls > 0) => width = <<19, 2>> /\ height = <<33, 8>>
        /\ \A v \in LiteralVectors :
              (size.val = v.tok /\ calls > 0) => width = v.w /\ height = v.h
        /\ (size.val \in Keys \cup {v.tok : v \in LiteralVectors})
              => /\ pc \in {"unwind", "failed"} => err \in {"TypeError", "OSError", "cairo.Error"}
                 /\ pc \in {"r_returned", "done"} => calls = 1

C5_Witness ==
    /\ pc = "done" /\ calls = 1
    /\ size = Str(<<"#","7",".","7","5">>)
    /\ width = <<15, 2>> /\ height = <<63, 16>>

\* C6: once envelope.pdf has been opened, no terminal state of _main leaves
\* its handle open.
C6_HandleClosed ==
    pc \in {"done", "failed"} =>
        /\ fh # "open"
        /\ disk # "untouched" => fh = "closed"

C6_Witness == pc = "failed" /\ err = "cairo.Error" /\ fh = "closed"

\* C7: envelope.pdf is opened only after both size parts have been converted
\* to numbers, so a size-parse failure never creates or truncates it.
C7_OpenAfterResolve ==
    /\ disk # "untouched" => ParseFloat(width_s).ok /\ ParseFloat(height_s).ok
    /\ err = "ValueError" => disk = "untouched" /\ fh = "none"

\* C8: a successful render draws the from lines in order, then the to lines
\* in order, then one show_page, flush and finish; nothing is drawn after the
\* page is emitted; the function is entered at most once per run.
C8_RenderSequence ==
    LET nf == Len(r_from)
        nt == Len(r_to)
    IN /\ calls <= 1
       /\ calls = 1 => r_from = from_addr.val /\ r_to = to_addr.val
       /\ \A j, k \in 1..Len(log) :
             (j < k /\ log[j].op = "show_page") => log[k].op \in {"flush", "finish"}
       /\ pc \in {"r_returned", "done"} =>
             /\ surface = "finished"
             /\ Len(log) = nf + nt + 3
             /\ \A k \in 1..nf : log[k].op = "show_text" /\ log[k].text = r_from[k]
             /\ \A k \in 1..nt :
                   log[nf + k].op = "show_text" /\ log[nf + k].text = r_to[k]
             /\ log[nf + nt + 1].op = "show_page"
             /\ log[nf + nt + 2].op = "flush"
             /\ log[nf + nt + 3].op = "finish"

C8_Witness ==
    /\ pc = "done" /\ surface = "finished"
    /\ Len(r_from) >= 2 /\ Len(r_to) >= 2
    /\ Len(log) = Len(r_from) + Len(r_to) + 3

\* C9: return-address line i (from 0) is drawn at x = 18 pt and
\* y = 27 + font_size * (i + 1), whatever the page size and to_addr; with
\* font size 14 the first line is at (18, 41); baselines are font_size apart.
C9_FromPlacement ==
    /\ \A k \in 1..Len(log) :
          k <= Len(r_from) =>
             /\ log[k].op = "show_text"
             /\ log[k].x = <<18, 1>>
             /\ log[k].y = <<27 + font_size * k, 1>>
             /\ k > 1 => RSub(log[k].y, log[k - 1].y) = <<font_size, 1>>
    /\ (font_size = 14 /\ Len(log) >= 1 /\ Len(r_from) >= 1)
          => log[1].x = <<18, 1>> /\ log[1].y = <<41, 1>>
    /\ pc \in {"r_to", "r_flush", "r_finish", "r_returned"} => Len(log) >= Len(r_from)

C9_Witness ==
    /\ pc = "r_returned" /\ font_size = 14 /\ Len(r_from) >= 2
    /\ log[1].x = <<18, 1>> /\ log[1].y = <<41, 1>>
    /\ log[2].y = <<55, 1>>

\* C10: destination line i (from 0) of n is drawn at x = 0.38 * page width
\* and y = page_height / 2 - font_size * (n - 1) / 2 + font_size * i, in
\* points; first and last baselines are equidistant from the vertical
\* midpoint; one line sits on the midpoint; "#10", font 14, n = 4 starts at
\* (259.92, 127.5).
C10_ToPlacement ==
    LET nf == Len(r_from)
        n  == Len(r_to)
        pw == RNorm(width[1] * 72, width[2])
        ph == RNorm(height[1] * 72, height[2])
    IN /\ \A k \in 1..Len(log) :
             (k > nf /\ k <= nf + n) =>
                LET i == k - nf - 1 IN
                /\ log[k].op = "show_text"
                /\ log[k].x = RNorm(pw[1] * 38, pw[2] * 100)
                /\ log[k].y = RNorm(ph[1] - font_size * (n - 1) * ph[2]
                                      + 2 * font_size * i * ph[2], 2 * ph[2])
       /\ (pc = "r_returned" /\ n >= 1) =>
             /\ Len(log) >= nf + n
             /\ RAdd(log[nf + 1].y, log[nf + n].y) = ph
             /\ n = 1 => log[nf + 1].y = RHalf(ph)
       /\ (pc = "r_returned" /\ width = <<19, 2>> /\ height = <<33, 8>>
              /\ font_size = 14 /\ n = 4)
             => log[nf + 1].x = <<6498, 25>> /\ log[nf + 1].y = <<255, 2>>

C10_Witness ==
    /\ pc = "r_returned" /\ font_size = 14 /\ Len(r_to) = 4
    /\ width = <<19, 2>> /\ height = <<33, 8>>
    /\ log[Len(r_from) + 1].x = <<6498, 25>>
    /\ log[Len(r_from) + 1].y = <<255, 2>>

====
